---- MODULE Spec2Model ----
(***************************************************************************)
(* LifeLoop AI: the asyncio message bus (core/message_bus.py), the agent   *)
(* lifecycle (agents/base_agent.py, agents/insight_agent.py) and the       *)
(* orchestrator (core/orchestrator.py) as a state machine.                 *)
(*                                                                         *)
(* Tasks are cooperative: a step of the model is what one task does        *)
(* between two suspension points of the event loop.                        *)
(***************************************************************************)
EXTENDS Integers, Sequences, FiniteSets, TLC

\* ------------------------------------------------------------- bounds
\* capacity of each subscriber queue (MessageBus(max_queue_size), a parameter)
MaxQueueSize == 2
\* number of subscribe calls explored
MaxSubs == 2
\* number of publish calls explored, all publishers together
MaxPublishes == 3

\* ------------------------------------------------------------- names
Wildcard == "*"

\* the four concrete agents the orchestrator registers
Agents == {"ActivityAgent", "FinanceAgent", "EmailAgent", "InsightAgent"}

\* the publishers that drive the bus in Spec
BusPublishers == {"FinanceAgent", "EmailAgent"}

\* event_type is a plain str: the values each publisher hands to publish in Spec
PublishTypes(w) ==
    IF w = "FinanceAgent" THEN {"finance_insight", Wildcard} ELSE {"email_summary"}

\* the keys of InsightAgent.collected_insights
Categories == {"activity", "finance", "email"}

\* the keys a caller hands to subscribe
SubscribeTypes == {"finance_insight", "email_summary", Wildcard}

VARIABLES
    subscribers,  \* MessageBus.subscribers: event_type -> sequence of queues
    queues,       \* the asyncio.Queue objects, by identity: content of each
    consumed,     \* history: what each queue has yielded to its reader, in order
    pub,          \* per caller: the frame of its call of MessageBus.publish
    published,    \* per caller: number of events it has built so far
    running,      \* BaseAgent.running of each agent
    pc,           \* where the task of each agent's run() is suspended
    cancelReq,    \* Task.cancel() was called on the agent's task, not yet delivered
    cycles,       \* number of process() calls each agent has begun
    drain,        \* the task of InsightAgent._consume_events
    drainCancelReq, \* event_consumer_task.cancel() was called, not yet delivered
    event_queue,  \* InsightAgent.event_queue (0 is None)
    collected_insights, \* InsightAgent.collected_insights (0 is None)
    insight_history,    \* InsightAgent.insight_history
    orch,         \* Orchestrator: its running flag and where run() is
    email         \* EmailAgent: mock_emails, llm_available, its last summary

busVars == <<subscribers, queues, consumed>>
pubVars == <<pub, published>>
agentVars == <<running, pc, cancelReq, cycles>>
insightVars == <<drain, drainCancelReq, event_queue, collected_insights, insight_history>>
lifeVars == <<running, pc, cancelReq, cycles, drain, drainCancelReq, event_queue,
              collected_insights, insight_history, orch, email>>
vars == <<subscribers, queues, consumed, pub, published, running, pc, cancelReq,
          cycles, drain, drainCancelReq, event_queue, collected_insights,
          insight_history, orch, email>>

\* ------------------------------------------------------------- Event
\* Event(event_type, source_agent, data); data stands for the payload
Event(t, src, d) == [event_type |-> t, source_agent |-> src, data |-> d]

NoEvent == Event("", "", 0)

\* ------------------------------------------------------------- MessageBus
\* the frame of a publish call: st is "idle" (never called), "active" (inside the
\* for loop, about to put into targets[i]) or "returned"; waiting is TRUE while
\* queue.put is suspended on a full queue; outcome[k] tells how the put into
\* targets[k] ended; blocked tells whether some put of the call found its queue
\* full; nq is the number of queues that existed when it was called and room
\* tells whether every target had a free slot then.
IdleFrame ==
    [st |-> "idle", event |-> NoEvent, targets |-> <<>>, i |-> 1,
     waiting |-> FALSE, blocked |-> FALSE, outcome |-> <<>>, nq |-> 0,
     room |-> FALSE]

\* subscribers.get(t, []) of the registry
Registered(subs, t) == IF t \in DOMAIN subs THEN subs[t] ELSE <<>>

\* a bug: the wildcard subscribers are left out
TargetsNoWildcard(subs, t) == Registered(subs, t)

\* a bug: no filtering, every registered queue is a target
TargetsNoFilter(subs, t) ==
    Registered(subs, "finance_insight") \o Registered(subs, "email_summary")
        \o Registered(subs, Wildcard)

\* publish, lines 59-64: targets = subscribers[event_type] + subscribers['*']
Targets(subs, t) == Registered(subs, t) \o Registered(subs, Wildcard)

\* a bug: the queues are built without maxsize, a put always finds room
FullNever(q) == FALSE

\* asyncio.Queue.full()
Full(q) == Len(queues[q]) >= MaxQueueSize

\* a bug: the newest event overtakes the ones waiting in the queue
EnqueueFront(content, e) == <<e>> \o content

\* asyncio.Queue.put_nowait on a FIFO queue
Enqueue(content, e) == Append(content, e)

\* a bug: the for loop runs over the registry's own lists, so that a queue
\* subscribed during the publish is served too
AdvanceLive(f, o) ==
    LET tg == Targets(subscribers, f.event.event_type)
    IN [f EXCEPT !.outcome = Append(@, o),
                 !.waiting = FALSE,
                 !.targets = tg,
                 !.i = @ + 1,
                 !.st = IF f.i >= Len(tg) THEN "returned" ELSE "active"]

\* the frame after the put into targets[i] ended with outcome o: the for loop
\* goes on to the next target, and publish returns after the last one
Advance(f, o) ==
    [f EXCEPT !.outcome = Append(@, o),
              !.waiting = FALSE,
              !.i = @ + 1,
              !.st = IF f.i >= Len(f.targets) THEN "returned" ELSE "active"]

\* a bug: the new queue is put in front of the ones registered before
SubscribePrepends(t) ==
    /\ Len(queues) < MaxSubs
    /\ queues' = Append(queues, <<>>)
    /\ consumed' = Append(consumed, <<>>)
    /\ subscribers' =
         IF t \in DOMAIN subscribers
         THEN [subscribers EXCEPT ![t] = <<Len(queues) + 1>> \o @]
         ELSE subscribers @@ (t :> <<Len(queues) + 1>>)
    /\ UNCHANGED <<pubVars, lifeVars>>

\* MessageBus.subscribe(event_type): a fresh queue appended under event_type
Subscribe(t) ==
    /\ Len(queues) < MaxSubs
    /\ queues' = Append(queues, <<>>)
    /\ consumed' = Append(consumed, <<>>)
    /\ subscribers' =
         IF t \in DOMAIN subscribers
         THEN [subscribers EXCEPT ![t] = Append(@, Len(queues) + 1)]
         ELSE subscribers @@ (t :> <<Len(queues) + 1>>)
    /\ UNCHANGED <<pubVars, lifeVars>>

\* a bug: the wildcard key is left out of the statistics
get_stats_concrete(subs) ==
    [event_types |-> DOMAIN subs \ {Wildcard},
     subscriber_counts |-> [t \in DOMAIN subs \ {Wildcard} |-> Len(subs[t])]]

\* MessageBus.get_stats(): the registered keys and the number of queues of each
get_stats(subs) ==
    [event_types |-> DOMAIN subs,
     subscriber_counts |-> [t \in DOMAIN subs |-> Len(subs[t])]]

\* the frame of publish(Event(t, w, data)) when it reaches its for loop, called
\* with registry subs and queue contents qs
StartFrame(subs, qs, w, t) ==
    LET tg == Targets(subs, t)
    IN [st |-> IF tg = <<>> THEN "returned" ELSE "active",
        event |-> Event(t, w, published[w] + 1),
        targets |-> tg, i |-> 1, waiting |-> FALSE,
        blocked |-> FALSE, outcome |-> <<>>, nq |-> Len(qs),
        room |-> \A k \in 1..Len(tg) : Len(qs[tg[k]]) < MaxQueueSize]

\* the publish calls made so far
TotalPublished == published["FinanceAgent"] + published["EmailAgent"]

\* BaseAgent.publish_event builds the Event and calls MessageBus.publish, which
\* computes its targets before the first put; with no target it returns at once
PublishStart(w, t) ==
    /\ pub[w].st \in {"idle", "returned"}
    /\ TotalPublished < MaxPublishes
    /\ published' = [published EXCEPT ![w] = @ + 1]
    /\ pub' = [pub EXCEPT ![w] = StartFrame(subscribers, queues, w, t)]
    /\ UNCHANGED <<busVars, lifeVars>>

\* queue.put(event) finds room (at once, or after a reader freed a slot)
PutNow(w) ==
    /\ pub[w].st = "active"
    /\ LET q == pub[w].targets[pub[w].i]
       IN /\ ~Full(q)
          /\ queues' = [queues EXCEPT ![q] = Enqueue(@, pub[w].event)]
    /\ pub' = [pub EXCEPT ![w] = Advance(@, "ok")]
    /\ UNCHANGED <<subscribers, consumed, published, lifeVars>>

\* queue.put(event) finds the queue full and suspends inside wait_for
PutBlock(w) ==
    /\ pub[w].st = "active"
    /\ ~pub[w].waiting
    /\ Full(pub[w].targets[pub[w].i])
    /\ pub' = [pub EXCEPT ![w].waiting = TRUE, ![w].blocked = TRUE]
    /\ UNCHANGED <<busVars, published, lifeVars>>

\* a bug: a timeout ends the whole publish, the later targets are skipped
PutTimeoutAbort(w) ==
    /\ pub[w].st = "active"
    /\ pub[w].waiting
    /\ pub' = [pub EXCEPT ![w].outcome = Append(@, "timeout"),
                          ![w].waiting = FALSE,
                          ![w].st = "returned"]
    /\ UNCHANGED <<busVars, published, lifeVars>>

\* wait_for's 5 s pass while the put is suspended: TimeoutError, lines 72-73,
\* the event is dropped for this queue and the loop goes on
PutTimeout(w) ==
    /\ pub[w].st = "active"
    /\ pub[w].waiting
    /\ pub' = [pub EXCEPT ![w] = Advance(@, "timeout")]
    /\ UNCHANGED <<busVars, published, lifeVars>>

\* a bug: an error raised by put escapes publish
PutErrorEscapes(w) ==
    /\ pub[w].st = "active"
    /\ pub' = [pub EXCEPT ![w].outcome = Append(@, "error"),
                          ![w].waiting = FALSE,
                          ![w].st = "raised"]
    /\ UNCHANGED <<busVars, published, lifeVars>>

\* the put raises an Exception: lines 74-75, logged, the loop goes on
PutError(w) ==
    /\ pub[w].st = "active"
    /\ pub' = [pub EXCEPT ![w] = Advance(@, "error")]
    /\ UNCHANGED <<busVars, published, lifeVars>>

\* a caller takes the statistics of the bus (as the monitoring loop does, line
\* 87) and keeps the result
Stats ==
    /\ orch' = [orch EXCEPT !.stats = get_stats(subscribers)]
    /\ UNCHANGED <<busVars, pubVars, agentVars, insightVars, email>>

\* a bug: the reader takes the newest event
DequeueLast(q) ==
    /\ q \in 1..Len(queues)
    /\ queues[q] # <<>>
    /\ consumed' = [consumed EXCEPT ![q] = Append(@, queues[q][Len(queues[q])])]
    /\ queues' = [queues EXCEPT ![q] = SubSeq(@, 1, Len(@) - 1)]
    /\ UNCHANGED <<subscribers, pubVars, lifeVars>>

\* the owner of the queue takes the oldest event: await queue.get()
Dequeue(q) ==
    /\ q \in 1..Len(queues)
    /\ queues[q] # <<>>
    /\ consumed' = [consumed EXCEPT ![q] = Append(@, Head(queues[q]))]
    /\ queues' = [queues EXCEPT ![q] = Tail(@)]
    /\ UNCHANGED <<subscribers, pubVars, lifeVars>>

\* ------------------------------------------------------------- agents
\* number of process() calls explored in SpecLife, all agents together
MaxCycles == 3
\* number of process() calls explored in SpecFresh, all agents together
MaxFreshCycles == 4
\* number of process() calls explored in SpecStop, all agents together
MaxStopCycles == 2
\* number of process() calls of InsightAgent explored in SpecHist
MaxHistCycles == 102

\* InsightAgent.process keeps the last 100 entries of insight_history
HistoryCap == 100

Insight == "InsightAgent"

\* a bug: every agent publishes under the aggregate's type
TypeOfInsight(a) == "daily_insight"

\* the event type each agent's process() publishes
TypeOf(a) ==
    CASE a = "ActivityAgent" -> "activity_summary"
      [] a = "FinanceAgent" -> "finance_insight"
      [] a = "EmailAgent" -> "email_summary"
      [] OTHER -> "daily_insight"

\* the process() calls begun so far
TotalCycles ==
    cycles["ActivityAgent"] + cycles["FinanceAgent"] + cycles["EmailAgent"]
        + cycles["InsightAgent"]

\* the exploration goes on to one more process() call of agent a
MayProcess(a, own, total) == cycles[a] < own /\ TotalCycles < total

\* a task that has ended, normally or by cancellation
Ended(st) == st \in {"done", "cancelled"}

\* the agent's task is suspended in asyncio.sleep(processing_interval), which
\* follows the return of publish inside the same step
Sleeping(a) == pc[a] = "cycle" /\ pub[a].st = "returned"

\* the agent's task is suspended inside publish, in wait_for(queue.put)
Publishing(a) == pc[a] = "cycle" /\ pub[a].st = "active"

\* insight_package of InsightAgent.process, lines 108-116 (n stands for the
\* timestamp: the number of the package, which is also the event's payload)
Snapshot(n) ==
    [cycle |-> n,
     detailed_insights |-> collected_insights,
     data_freshness |-> [c \in Categories |-> collected_insights[c] # 0]]

\* a bug: the newest entries are dropped instead of the oldest
KeepFirst(h) == IF Len(h) > HistoryCap THEN SubSeq(h, 1, HistoryCap) ELSE h

\* a bug: the history is never cut
KeepAll(h) == h

\* lines 120-121: insight_history[-100:] once the length exceeds 100
KeepLast(h) ==
    IF Len(h) > HistoryCap THEN SubSeq(h, Len(h) - HistoryCap + 1, Len(h)) ELSE h

\* process() runs up to the suspension inside publish_event (or through it, when
\* publish has no target): the agent's work, for InsightAgent the history
\* append and cut, then the publish call. subs and qs are the registry and the
\* queues at that moment.
ProcessPublishes(a, subs, qs) ==
    /\ cycles' = [cycles EXCEPT ![a] = @ + 1]
    /\ pc' = [pc EXCEPT ![a] = "cycle"]
    /\ pub' = [pub EXCEPT ![a] = StartFrame(subs, qs, a, TypeOf(a))]
    /\ published' = [published EXCEPT ![a] = @ + 1]
    /\ insight_history' =
         IF a = Insight
         THEN KeepLast(Append(insight_history, Snapshot(published[a] + 1)))
         ELSE insight_history

\* a bug: the error of process() leaves the loop and ends the task
ProcessRaisesFatal(a) ==
    /\ cycles' = [cycles EXCEPT ![a] = @ + 1]
    /\ pc' = [pc EXCEPT ![a] = "done"]
    /\ UNCHANGED <<pub, published, insight_history>>

\* process() raises before it publishes: caught at the loop boundary
\* (except Exception), the task goes to asyncio.sleep(5)
ProcessRaises(a) ==
    /\ cycles' = [cycles EXCEPT ![a] = @ + 1]
    /\ pc' = [pc EXCEPT ![a] = "recover"]
    /\ UNCHANGED <<pub, published, insight_history>>

\* a bug: a failed initialize() is handled like a failed process(): the task
\* sleeps 5 s and enters the loop
RunStartIgnoresFailure(a, own, total) ==
    /\ a # Insight
    /\ pc[a] = "created"
    /\ ~cancelReq[a]
    /\ running' = [running EXCEPT ![a] = TRUE]
    /\ \/ /\ MayProcess(a, own, total)
          /\ ProcessPublishes(a, subscribers, queues) \/ ProcessRaises(a)
       \/ /\ pc' = [pc EXCEPT ![a] = "recover"]
          /\ UNCHANGED <<cycles, pub, published, insight_history>>
    /\ UNCHANGED <<busVars, cancelReq, drain, drainCancelReq, event_queue,
                   collected_insights, orch, email>>

\* BaseAgent.run from its first line to its first suspension, for the three
\* plain agents: running = True, initialize(), then the first process()
RunStart(a, own, total) ==
    /\ a # Insight
    /\ pc[a] = "created"
    /\ ~cancelReq[a]
    /\ running' = [running EXCEPT ![a] = TRUE]
    /\ \/ /\ MayProcess(a, own, total)
          /\ ProcessPublishes(a, subscribers, queues)
       \/ /\ MayProcess(a, own, total)
          /\ ProcessRaises(a)
       \/ \* initialize() raises: except Exception at the end of run, the task ends
          /\ pc' = [pc EXCEPT ![a] = "done"]
          /\ UNCHANGED <<cycles, pub, published, insight_history>>
    /\ UNCHANGED <<busVars, cancelReq, drain, drainCancelReq, event_queue,
                   collected_insights, orch, email>>

\* InsightAgent.run from its first line to its first suspension: running = True,
\* initialize() subscribes to '*', the drain task is created, first process()
InsightRunStart(own, total) ==
    /\ pc[Insight] = "created"
    /\ ~cancelReq[Insight]
    /\ MayProcess(Insight, own, total)
    /\ running' = [running EXCEPT ![Insight] = TRUE]
    /\ queues' = Append(queues, <<>>)
    /\ consumed' = Append(consumed, <<>>)
    /\ subscribers' =
         IF Wildcard \in DOMAIN subscribers
         THEN [subscribers EXCEPT ![Wildcard] = Append(@, Len(queues) + 1)]
         ELSE subscribers @@ (Wildcard :> <<Len(queues) + 1>>)
    /\ event_queue' = Len(queues) + 1
    /\ drain' = "created"
    /\ \/ ProcessPublishes(Insight, subscribers', queues')
       \/ ProcessRaises(Insight)
    /\ UNCHANGED <<cancelReq, drainCancelReq, collected_insights, orch, email>>

\* a bug: the drain task is created before initialize(), which then fails
InsightInitFailsAfterCreate ==
    /\ pc[Insight] = "created"
    /\ ~cancelReq[Insight]
    /\ running' = [running EXCEPT ![Insight] = TRUE]
    /\ pc' = [pc EXCEPT ![Insight] = "done"]
    /\ drain' = "created"
    /\ UNCHANGED <<busVars, pubVars, cancelReq, cycles, drainCancelReq, event_queue,
                   collected_insights, insight_history, orch, email>>

\* InsightAgent.run when initialize() raises: except Exception at line 154, no
\* drain task was created, the task ends
InsightInitFails ==
    /\ pc[Insight] = "created"
    /\ ~cancelReq[Insight]
    /\ running' = [running EXCEPT ![Insight] = TRUE]
    /\ pc' = [pc EXCEPT ![Insight] = "done"]
    /\ UNCHANGED <<busVars, pubVars, cancelReq, cycles, insightVars, orch, email>>

\* a bug: the loop does not test the flag, process() is called again
WakeIgnoresStop(a, own, total) ==
    /\ ~cancelReq[a]
    /\ Sleeping(a) \/ pc[a] = "recover"
    /\ MayProcess(a, own, total)
    /\ ProcessPublishes(a, subscribers, queues) \/ ProcessRaises(a)
    /\ UNCHANGED <<busVars, running, cancelReq, drain, drainCancelReq, event_queue,
                   collected_insights, orch, email>>

\* the sleep (interval, or 5 s after an error) ends and `while self.running` is
\* tested: next process(), or the loop is left; InsightAgent then cancels its
\* drain task (lines 151-152) and awaits it
Wake(a, own, total) ==
    /\ ~cancelReq[a]
    /\ Sleeping(a) \/ pc[a] = "recover"
    /\ IF running[a]
       THEN /\ MayProcess(a, own, total)
            /\ \/ ProcessPublishes(a, subscribers, queues)
               \/ ProcessRaises(a)
            /\ UNCHANGED drainCancelReq
       ELSE /\ pc' = [pc EXCEPT ![a] = IF a = Insight THEN "join" ELSE "done"]
            /\ drainCancelReq' =
                 IF a = Insight /\ ~Ended(drain) THEN TRUE ELSE drainCancelReq
            /\ UNCHANGED <<cycles, pub, published, insight_history>>
    /\ UNCHANGED <<busVars, running, cancelReq, drain, event_queue,
                   collected_insights, orch, email>>

\* asyncio.gather(event_consumer_task) of InsightAgent.run returns: run ends
JoinDone ==
    /\ pc[Insight] = "join"
    /\ ~cancelReq[Insight]
    /\ Ended(drain)
    /\ pc' = [pc EXCEPT ![Insight] = "done"]
    /\ UNCHANGED <<busVars, pubVars, running, cancelReq, cycles, insightVars, orch, email>>

\* the CancelledError of Task.cancel() reaches the agent's task at its
\* suspension point (sleep, wait_for inside publish, gather) or before its first
\* step. It is no Exception: no handler of run, process or publish catches it,
\* lines 151-152 are skipped and the task ends cancelled.
CancelDelivered(a) ==
    /\ cancelReq[a]
    /\ pc[a] \in {"created", "cycle", "recover", "join"}
    /\ pc' = [pc EXCEPT ![a] = "cancelled"]
    /\ cancelReq' = [cancelReq EXCEPT ![a] = FALSE]
    /\ pub' = [pub EXCEPT ![a].st = IF @ = "active" THEN "cancelled" ELSE @,
                          ![a].waiting = FALSE]
    /\ UNCHANGED <<busVars, published, running, cycles, insightVars, orch, email>>

\* the CancelledError reaches a task whose suspended put has obtained its slot
\* in the meantime: asyncio.wait_for (Python 3.11 and earlier) finds the inner
\* put done and returns its result, the cancellation is lost and publish goes
\* on with the next target
CancelSwallowed(a) ==
    /\ cancelReq[a]
    /\ Publishing(a)
    /\ pub[a].waiting
    /\ LET q == pub[a].targets[pub[a].i]
       IN /\ ~Full(q)
          /\ queues' = [queues EXCEPT ![q] = Enqueue(@, pub[a].event)]
    /\ pub' = [pub EXCEPT ![a] = Advance(@, "ok")]
    /\ cancelReq' = [cancelReq EXCEPT ![a] = FALSE]
    /\ UNCHANGED <<subscribers, consumed, published, running, pc, cycles,
                   insightVars, orch, email>>

\* a bug: stop() ends the task where it stands, abandoning its publish
AgentStopPreempts(a) ==
    /\ orch.pc = "monitor"
    /\ a \notin orch.stop_requested
    /\ running' = [running EXCEPT ![a] = FALSE]
    /\ orch' = [orch EXCEPT !.stop_requested = @ \cup {a}]
    /\ pc' = [pc EXCEPT ![a] = IF @ \in {"cycle", "recover"} THEN "done" ELSE @]
    /\ pub' = [pub EXCEPT ![a].st = IF @ = "active" THEN "cancelled" ELSE @,
                          ![a].waiting = FALSE]
    /\ UNCHANGED <<busVars, published, cancelReq, cycles, insightVars, email>>

\* BaseAgent.stop() called on an agent whose task exists, started or not: the
\* flag only (stop_requested remembers the call)
AgentStop(a) ==
    /\ orch.pc = "monitor"
    /\ a \notin orch.stop_requested
    /\ running' = [running EXCEPT ![a] = FALSE]
    /\ orch' = [orch EXCEPT !.stop_requested = @ \cup {a}]
    /\ UNCHANGED <<busVars, pubVars, pc, cancelReq, cycles, insightVars, email>>

\* stop() called on a worker that is in its loop
StopRunning(a) == running[a] /\ AgentStop(a)

\* ------------------------------------------------------------- EmailAgent

MaxEmails == 10

MaxEmailCycles == 4

Priorities == {"high", "medium", "low"}

\* EmailAgent.__init__: mock_emails = [], llm_available = False; llm is the
\* outcome of the last call of _create_llm_summary ("none": not called) and
\* summary the text of the last process() (<< >> before the first)
NoEmails ==
    [mock_emails |-> << >>, llm_available |-> FALSE, llm |-> "none", summary |-> << >>]

\* a list of emails with the priorities ps; the subject is the email's id
Emails(ps) == [k \in 1..Len(ps) |-> [subject |-> k, priority |-> ps[k]]]

\* the five emails of initialize(), lines 31-72
MockEmails == Emails(<<"high", "low", "high", "medium", "medium">>)

\* str(n) of the f-strings: the decimal digits of n
RECURSIVE Decimal(_)
Decimal(n) == IF n < 10 THEN <<n>> ELSE Append(Decimal(n \div 10), n % 10)

\* the subjects of the first two emails of a list (high_priority[:2])
FirstTwoSubjects(es) ==
    [k \in 1..(IF Len(es) < 2 THEN Len(es) ELSE 2) |-> es[k].subject]

\* one sentence of the summary: its label, the number printed in it and the
\* subjects quoted in it
Sentence(label, n, subjects) ==
    [label |-> label, count |-> Decimal(n), subjects |-> subjects]

\* a bug: the urgent messages are counted after the cut to two subjects
create_rule_based_summary_cut(emails) ==
    LET high == SelectSeq(emails, LAMBDA e : e.priority = "high")
        medium == SelectSeq(emails, LAMBDA e : e.priority = "medium")
        low == SelectSeq(emails, LAMBDA e : e.priority = "low")
    IN <<Sentence("unread", Len(emails), << >>)>>
       \o (IF high # << >>
           THEN <<Sentence("urgent", Len(FirstTwoSubjects(high)), FirstTwoSubjects(high))>>
           ELSE << >>)
       \o (IF medium # << >> THEN <<Sentence("medium", Len(medium), << >>)>> ELSE << >>)
       \o (IF low # << >> THEN <<Sentence("low", Len(low), << >>)>> ELSE << >>)

\* EmailAgent._create_rule_based_summary: the text as the sequence of its
\* sentences, joined in this order
create_rule_based_summary(emails) ==
    LET high == SelectSeq(emails, LAMBDA e : e.priority = "high")
        medium == SelectSeq(emails, LAMBDA e : e.priority = "medium")
        low == SelectSeq(emails, LAMBDA e : e.priority = "low")
    IN <<Sentence("unread", Len(emails), << >>)>>
       \o (IF high # << >>
           THEN <<Sentence("urgent", Len(high), FirstTwoSubjects(high))>>
           ELSE << >>)
       \o (IF medium # << >> THEN <<Sentence("medium", Len(medium), << >>)>> ELSE << >>)
       \o (IF low # << >> THEN <<Sentence("low", Len(low), << >>)>> ELSE << >>)

\* the text the language model returns (response.content)
LLMText == <<[label |-> "llm", count |-> << >>, subjects |-> << >>]>>

\* EmailAgent._create_llm_summary: the model's text, or, when anything in the
\* try block raises an Exception, the rule-based summary of the same emails
create_llm_summary(emails, outcome) ==
    IF outcome = "ok" THEN LLMText ELSE create_rule_based_summary(emails)

\* _create_rule_based_summary is applied to the agent's emails
Summarize ==
    /\ email.summary = << >>
    /\ email' = [email EXCEPT !.summary = create_rule_based_summary(email.mock_emails)]
    /\ UNCHANGED <<busVars, pubVars, agentVars, insightVars, orch>>

\* a bug: the failure of the language model is not caught, process() raises
EmailProcessRaises(emails, avail, subs, qs) ==
    \E outcome \in (IF avail THEN {"ok", "failed"} ELSE {"none"}) :
        /\ email' = [mock_emails |-> emails, llm_available |-> avail,
                     llm |-> outcome,
                     summary |-> IF outcome = "failed" THEN email.summary
                                 ELSE create_llm_summary(emails, outcome)]
        /\ IF outcome = "failed"
           THEN ProcessRaises("EmailAgent")
           ELSE ProcessPublishes("EmailAgent", subs, qs)

\* EmailAgent.process up to the suspension inside publish_event: the summary
\* by the language model when llm_available (it answers or fails), else by
\* rule; email_data is built and published as email_summary
EmailProcess(emails, avail, subs, qs) ==
    \E outcome \in (IF avail THEN {"ok", "failed"} ELSE {"none"}) :
        /\ email' = [mock_emails |-> emails, llm_available |-> avail,
                     llm |-> outcome,
                     summary |-> IF avail THEN create_llm_summary(emails, outcome)
                                 ELSE create_rule_based_summary(emails)]
        /\ ProcessPublishes("EmailAgent", subs, qs)

\* BaseAgent.run of EmailAgent from its first line to its first suspension:
\* running = True, initialize() loads the five emails and reads the API key
\* from the environment, then the first process()
EmailRunStart(own, total) ==
    /\ pc["EmailAgent"] = "created"
    /\ ~cancelReq["EmailAgent"]
    /\ MayProcess("EmailAgent", own, total)
    /\ running' = [running EXCEPT !["EmailAgent"] = TRUE]
    /\ \E key \in BOOLEAN : EmailProcess(MockEmails, key, subscribers, queues)
    /\ UNCHANGED <<busVars, cancelReq, drain, drainCancelReq, event_queue,
                   collected_insights, orch>>

\* EmailAgent's sleep ends and `while self.running` is tested: next process(),
\* or the loop is left
EmailWake(own, total) ==
    /\ ~cancelReq["EmailAgent"]
    /\ Sleeping("EmailAgent") \/ pc["EmailAgent"] = "recover"
    /\ IF running["EmailAgent"]
       THEN /\ MayProcess("EmailAgent", own, total)
            /\ EmailProcess(email.mock_emails, email.llm_available, subscribers, queues)
       ELSE /\ pc' = [pc EXCEPT !["EmailAgent"] = "done"]
            /\ UNCHANGED <<cycles, pub, published, insight_history, email>>
    /\ UNCHANGED <<busVars, running, cancelReq, drain, drainCancelReq, event_queue,
                   collected_insights, orch>>

\* a bug: the drain loop is `while True`
DrainLoopForever == "waiting"

\* ------------------------------------------------------------- drain task
\* the test of `while self.running` in _consume_events
DrainLoop == IF running[Insight] THEN "waiting" ELSE "done"

\* a bug: the payload is written to every category
FoldAny(ci, e) == [c \in Categories |-> e.data]

\* a bug: a category keeps the first payload it received
FoldKeepsFirst(ci, e) ==
    CASE e.event_type = "activity_summary" /\ ci["activity"] = 0
            -> [ci EXCEPT !["activity"] = e.data]
      [] e.event_type = "finance_insight" /\ ci["finance"] = 0
            -> [ci EXCEPT !["finance"] = e.data]
      [] e.event_type = "email_summary" /\ ci["email"] = 0
            -> [ci EXCEPT !["email"] = e.data]
      [] OTHER -> ci

\* a bug: an event of any other type is filed under activity
FoldOther(ci, e) ==
    CASE e.event_type = "finance_insight" -> [ci EXCEPT !["finance"] = e.data]
      [] e.event_type = "email_summary" -> [ci EXCEPT !["email"] = e.data]
      [] OTHER -> [ci EXCEPT !["activity"] = e.data]

\* lines 51-58: the payload of the event overwrites its category
Fold(ci, e) ==
    CASE e.event_type = "activity_summary" -> [ci EXCEPT !["activity"] = e.data]
      [] e.event_type = "finance_insight" -> [ci EXCEPT !["finance"] = e.data]
      [] e.event_type = "email_summary" -> [ci EXCEPT !["email"] = e.data]
      [] OTHER -> ci

\* first step of the drain task: the loop test, then wait_for(queue.get())
DrainStart ==
    /\ drain = "created"
    /\ ~drainCancelReq
    /\ drain' = DrainLoop
    /\ UNCHANGED <<busVars, pubVars, agentVars, drainCancelReq, event_queue,
                   collected_insights, insight_history, orch, email>>

\* a bug: process() stores collected_insights itself, not a copy, in its
\* package: every entry of the history shows what the drain task writes later
DrainGetAliased ==
    /\ drain = "waiting"
    /\ ~drainCancelReq
    /\ queues[event_queue] # <<>>
    /\ collected_insights' = Fold(collected_insights, Head(queues[event_queue]))
    /\ consumed' = [consumed EXCEPT ![event_queue] = Append(@, Head(queues[event_queue]))]
    /\ queues' = [queues EXCEPT ![event_queue] = Tail(@)]
    /\ drain' = DrainLoop
    /\ insight_history' =
         [k \in 1..Len(insight_history) |->
            [insight_history[k] EXCEPT !.detailed_insights = collected_insights']]
    /\ UNCHANGED <<subscribers, pubVars, agentVars, drainCancelReq, event_queue,
                   orch, email>>

\* wait_for(queue.get()) yields the oldest event: fold, then the loop test
DrainGet ==
    /\ drain = "waiting"
    /\ ~drainCancelReq
    /\ queues[event_queue] # <<>>
    /\ collected_insights' = Fold(collected_insights, Head(queues[event_queue]))
    /\ consumed' = [consumed EXCEPT ![event_queue] = Append(@, Head(queues[event_queue]))]
    /\ queues' = [queues EXCEPT ![event_queue] = Tail(@)]
    /\ drain' = DrainLoop
    /\ UNCHANGED <<subscribers, pubVars, agentVars, drainCancelReq, event_queue,
                   insight_history, orch, email>>

\* a bug: the TimeoutError ends the loop
DrainTimeoutEndsLoop ==
    /\ drain = "waiting"
    /\ ~drainCancelReq
    /\ queues[event_queue] = <<>>
    /\ drain' = "done"
    /\ UNCHANGED <<busVars, pubVars, agentVars, drainCancelReq, event_queue,
                   collected_insights, insight_history, orch, email>>

\* wait_for's 1 s pass on an empty queue: TimeoutError, continue, the loop test
DrainTimeout ==
    /\ drain = "waiting"
    /\ ~drainCancelReq
    /\ queues[event_queue] = <<>>
    /\ drain' = DrainLoop
    /\ UNCHANGED <<busVars, pubVars, agentVars, drainCancelReq, event_queue,
                   collected_insights, insight_history, orch, email>>

\* the CancelledError reaches the drain task: it ends cancelled
DrainCancelled ==
    /\ drainCancelReq
    /\ drain \in {"created", "waiting"}
    /\ drain' = "cancelled"
    /\ drainCancelReq' = FALSE
    /\ UNCHANGED <<busVars, pubVars, agentVars, event_queue, collected_insights,
                   insight_history, orch, email>>

\* the CancelledError reaches the drain task when the queue.get() inside
\* wait_for has already taken an event: wait_for returns the event and the
\* cancellation is gone (asyncio.wait_for up to Python 3.11); fold, loop test
DrainCancelSwallowed ==
    /\ drainCancelReq
    /\ drain = "waiting"
    /\ queues[event_queue] # <<>>
    /\ collected_insights' = Fold(collected_insights, Head(queues[event_queue]))
    /\ consumed' = [consumed EXCEPT ![event_queue] = Append(@, Head(queues[event_queue]))]
    /\ queues' = [queues EXCEPT ![event_queue] = Tail(@)]
    /\ drain' = DrainLoop
    /\ drainCancelReq' = FALSE
    /\ UNCHANGED <<subscribers, pubVars, agentVars, event_queue, insight_history,
                   orch, email>>

\* ------------------------------------------------------------- Orchestrator
\* Orchestrator.run up to its first sleep: register_agents, start_agents
OrchStart ==
    /\ orch.pc = "init"
    /\ orch' = [running |-> TRUE, pc |-> "monitor", reported |-> {},
              stop_requested |-> {}, stats |-> get_stats(<< >>)]
    /\ pc' = [a \in Agents |-> "created"]
    /\ UNCHANGED <<busVars, pubVars, running, cancelReq, cycles, insightVars, email>>

\* Orchestrator.shutdown(): the flag only
OrchShutdown ==
    /\ orch.pc = "monitor"
    /\ orch.running
    /\ orch' = [orch EXCEPT !.running = FALSE]
    /\ UNCHANGED <<busVars, pubVars, agentVars, insightVars, email>>

\* lines 88-96: the agents whose task the monitoring loop finds done; it logs
\* them and awaits each done task, which returns at once
DoneTasks == {a \in Agents : Ended(pc[a])}

\* a bug: the monitoring loop stops every agent once it finds a task done
MonitorTickStopsAll ==
    /\ orch.pc = "monitor"
    /\ orch.running
    /\ orch' = [orch EXCEPT !.reported = DoneTasks]
    /\ running' = [a \in Agents |-> IF DoneTasks = {} THEN running[a] ELSE FALSE]
    /\ UNCHANGED <<busVars, pubVars, pc, cancelReq, cycles, insightVars, email>>

\* sleep(1) of the monitoring loop ends with running still true: the done tasks
\* are logged, the loop goes to its next sleep
MonitorTick ==
    /\ orch.pc = "monitor"
    /\ orch.running
    /\ orch' = [orch EXCEPT !.reported = DoneTasks]
    /\ UNCHANGED <<busVars, pubVars, agentVars, insightVars, email>>

\* a bug: stop_agents clears the flags and cancels no task
StopOnly ==
    /\ running' = [a \in Agents |-> FALSE]
    /\ UNCHANGED cancelReq

\* stop_agents, lines 65-69: stop() on every agent, then cancel() on every task
StopAll ==
    /\ running' = [a \in Agents |-> FALSE]
    /\ cancelReq' = [a \in Agents |-> ~Ended(pc[a])]

\* sleep(1) ends, the done tasks are logged, the monitoring loop finds running
\* false and run's finally calls stop_agents, up to the gather
StopAgents ==
    /\ orch.pc = "monitor"
    /\ ~orch.running
    /\ StopAll
    /\ orch' = [orch EXCEPT !.pc = "gather", !.reported = DoneTasks,
                            !.stop_requested = Agents]
    /\ UNCHANGED <<busVars, pubVars, pc, cycles, insightVars, email>>

\* the task of Orchestrator.run is cancelled in sleep(1) (asyncio.run on Ctrl-C):
\* the loop is left by the exception, run's finally calls stop_agents
LoopInterrupted ==
    /\ orch.pc = "monitor"
    /\ StopAll
    /\ orch' = [orch EXCEPT !.pc = "gather", !.stop_requested = Agents]
    /\ UNCHANGED <<busVars, pubVars, pc, cycles, insightVars, email>>

\* a bug: the wait ends with the first task that ended
GatherReturnsEarly ==
    /\ orch.pc = "gather"
    /\ \E a \in Agents : Ended(pc[a])
    /\ orch' = [orch EXCEPT !.running = FALSE, !.pc = "stopped"]
    /\ UNCHANGED <<busVars, pubVars, agentVars, insightVars, email>>

\* asyncio.gather(*tasks, return_exceptions=True) returns when every task ended
GatherReturns ==
    /\ orch.pc = "gather"
    /\ \A a \in Agents : Ended(pc[a])
    /\ orch' = [orch EXCEPT !.running = FALSE, !.pc = "stopped"]
    /\ UNCHANGED <<busVars, pubVars, agentVars, insightVars, email>>

\* ------------------------------------------------------------- Spec
\* after Orchestrator() and the agents' constructors: nothing runs yet
Init ==
    /\ subscribers = << >>
    /\ queues = << >>
    /\ consumed = << >>
    /\ pub = [w \in Agents |-> IdleFrame]
    /\ published = [w \in Agents |-> 0]
    /\ running = [a \in Agents |-> FALSE]
    /\ pc = [a \in Agents |-> "none"]
    /\ cancelReq = [a \in Agents |-> FALSE]
    /\ cycles = [a \in Agents |-> 0]
    /\ drain = "none"
    /\ drainCancelReq = FALSE
    /\ event_queue = 0
    /\ collected_insights = [c \in Categories |-> 0]
    /\ insight_history = << >>
    /\ orch = [running |-> FALSE, pc |-> "init", reported |-> {},
              stop_requested |-> {}, stats |-> get_stats(<< >>)]
    /\ email = NoEmails

Next ==
    \/ \E t \in SubscribeTypes : Subscribe(t)
    \/ \E w \in BusPublishers : \E t \in PublishTypes(w) : PublishStart(w, t)
    \/ \E w \in BusPublishers : PutNow(w)
    \/ \E w \in BusPublishers : PutBlock(w)
    \/ \E w \in BusPublishers : PutTimeout(w)
    \/ \E q \in 1..MaxSubs : Dequeue(q)

Spec == Init /\ [][Next]_vars

\* the event loop runs every ready task, and wait_for's timer fires: a publish
\* inside its for loop always takes its next step
PublishStep(w) == PutNow(w) \/ PutBlock(w) \/ PutTimeout(w)

FairSpec == Spec /\ \A w \in BusPublishers : WF_vars(PublishStep(w))

\* the bus with a caller of get_stats
NextStats ==
    \/ Next
    \/ Stats

SpecStats == Init /\ [][NextStats]_vars

\* the bus with queues whose put may raise
NextFault ==
    \/ Next
    \/ \E w \in BusPublishers : PutError(w)

SpecFault == Init /\ [][NextFault]_vars

\* the whole system: the orchestrator, the four agents, the drain task, the bus
NextLife ==
    \/ OrchStart
    \/ \E a \in Agents : RunStart(a, MaxCycles, MaxCycles)
    \/ InsightRunStart(MaxCycles, MaxCycles)
    \/ InsightInitFails
    \/ \E a \in Agents : Wake(a, MaxCycles, MaxCycles)
    \/ \E a \in Agents : PutNow(a)
    \/ \E a \in Agents : PutBlock(a)
    \/ \E a \in Agents : PutTimeout(a)
    \/ \E a \in Agents : CancelDelivered(a)
    \/ DrainStart
    \/ DrainGet
    \/ DrainTimeout
    \/ MonitorTick
    \/ OrchShutdown
    \/ StopAgents
    \/ LoopInterrupted
    \/ GatherReturns

SpecLife == Init /\ [][NextLife]_vars

\* the event loop runs every ready task: the Orchestrator's sleep(1) ends, a
\* cancelled task receives its CancelledError, a gather whose tasks are all done
\* resumes
FairLife ==
    /\ SpecLife
    /\ WF_vars(StopAgents)
    /\ WF_vars(GatherReturns)
    /\ \A a \in Agents : WF_vars(CancelDelivered(a))

\* the whole system on a runtime whose wait_for may lose a cancellation: the
\* task then leaves its loop by the running flag
NextCancel ==
    \/ NextLife
    \/ \E a \in Agents : CancelSwallowed(a)
    \/ JoinDone
    \/ DrainCancelled
    \/ DrainCancelSwallowed

SpecCancel == Init /\ [][NextCancel]_vars

\* the running system with stop() called on single agents and no cancellation
NextAgent ==
    \/ OrchStart
    \/ \E a \in Agents : RunStart(a, MaxCycles, MaxCycles)
    \/ InsightRunStart(MaxCycles, MaxCycles)
    \/ InsightInitFails
    \/ \E a \in Agents : Wake(a, MaxCycles, MaxCycles)
    \/ \E a \in Agents : PutNow(a)
    \/ \E a \in Agents : PutBlock(a)
    \/ \E a \in Agents : PutTimeout(a)
    \/ JoinDone
    \/ \E a \in Agents : StopRunning(a)
    \/ DrainStart
    \/ DrainGet
    \/ DrainTimeout
    \/ DrainCancelled

SpecAgent == Init /\ [][NextAgent]_vars

\* the same with stop() called at any time after the tasks were created, also
\* before a task has taken its first step (the MaxStopCycles events of a
\* behaviour never fill a queue: no put blocks here)
NextStop ==
    \/ OrchStart
    \/ \E a \in Agents : RunStart(a, MaxStopCycles, MaxStopCycles)
    \/ InsightRunStart(MaxStopCycles, MaxStopCycles)
    \/ InsightInitFails
    \/ \E a \in Agents : Wake(a, MaxStopCycles, MaxStopCycles)
    \/ \E a \in Agents : PutNow(a)
    \/ JoinDone
    \/ \E a \in Agents : AgentStop(a)
    \/ DrainStart
    \/ DrainGet
    \/ DrainTimeout
    \/ DrainCancelled

SpecStop == Init /\ [][NextStop]_vars

\* the event loop runs every ready task and every timer fires: a publish in its
\* for loop takes its next step
FairAgent == SpecAgent /\ \A a \in Agents : WF_vars(PublishStep(a))

\* the event loop runs the drain task when it is ready: its first step, and the
\* return of wait_for(queue.get()) when the queue holds an event
FairDrain == SpecAgent /\ WF_vars(DrainStart) /\ WF_vars(DrainGet)

\* one plain worker and InsightAgent, with stop() called at any time after a
\* task has started and no cancellation by the orchestrator
HaltAgents == {"EmailAgent", Insight}

NextHalt ==
    \/ OrchStart
    \/ \E a \in HaltAgents : RunStart(a, MaxCycles, MaxFreshCycles)
    \/ InsightRunStart(MaxCycles, MaxFreshCycles)
    \/ \E a \in HaltAgents : Wake(a, MaxCycles, MaxFreshCycles)
    \/ \E a \in HaltAgents : PutNow(a)
    \/ \E a \in HaltAgents : PutBlock(a)
    \/ \E a \in HaltAgents : PutTimeout(a)
    \/ JoinDone
    \/ \E a \in HaltAgents : StopRunning(a)
    \/ DrainStart
    \/ DrainGet
    \/ DrainTimeout
    \/ DrainCancelled

SpecHalt == Init /\ [][NextHalt]_vars

\* the event loop runs every task that is ready and every timer fires: the
\* steps of the drain task, of the publishes, the end of the sleeps and of the
\* gather of InsightAgent.run
FairHalt ==
    /\ SpecHalt
    /\ WF_vars(DrainStart) /\ WF_vars(DrainGet) /\ WF_vars(DrainTimeout)
    /\ WF_vars(DrainCancelled) /\ WF_vars(JoinDone)
    /\ \A a \in HaltAgents :
        WF_vars(PublishStep(a)) /\ WF_vars(Wake(a, MaxCycles, MaxFreshCycles))

\* the four agents at work, with no stop and no cancellation
NextFresh ==
    \/ OrchStart
    \/ \E a \in Agents : RunStart(a, MaxFreshCycles, MaxFreshCycles)
    \/ InsightRunStart(MaxFreshCycles, MaxFreshCycles)
    \/ \E a \in Agents : Wake(a, MaxFreshCycles, MaxFreshCycles)
    \/ \E a \in Agents : PutNow(a)
    \/ \E a \in Agents : PutBlock(a)
    \/ \E a \in Agents : PutTimeout(a)
    \/ DrainStart
    \/ DrainGet
    \/ DrainTimeout

SpecFresh == Init /\ [][NextFresh]_vars

\* the rule-based summary as a function: any list of up to MaxEmails emails
InitSummary ==
    /\ subscribers = << >>
    /\ queues = << >>
    /\ consumed = << >>
    /\ pub = [w \in Agents |-> IdleFrame]
    /\ published = [w \in Agents |-> 0]
    /\ running = [a \in Agents |-> FALSE]
    /\ pc = [a \in Agents |-> "none"]
    /\ cancelReq = [a \in Agents |-> FALSE]
    /\ cycles = [a \in Agents |-> 0]
    /\ drain = "none"
    /\ drainCancelReq = FALSE
    /\ event_queue = 0
    /\ collected_insights = [c \in Categories |-> 0]
    /\ insight_history = << >>
    /\ orch = [running |-> FALSE, pc |-> "init", reported |-> {},
              stop_requested |-> {}, stats |-> get_stats(<< >>)]
    /\ \E n \in 0..MaxEmails : \E ps \in [1..n -> Priorities] :
         email = [NoEmails EXCEPT !.mock_emails = Emails(ps)]

NextSummary == Summarize

SpecSummary == InitSummary /\ [][NextSummary]_vars

\* EmailAgent and InsightAgent on the bus, with the content of the summaries
NextEmail ==
    \/ OrchStart
    \/ EmailRunStart(MaxEmailCycles, MaxEmailCycles)
    \/ EmailWake(MaxEmailCycles, MaxEmailCycles)
    \/ InsightRunStart(MaxEmailCycles, MaxEmailCycles)
    \/ Wake(Insight, MaxEmailCycles, MaxEmailCycles)
    \/ \E a \in {"EmailAgent", Insight} : PutNow(a)
    \/ \E a \in {"EmailAgent", Insight} : PutBlock(a)
    \/ \E a \in {"EmailAgent", Insight} : PutTimeout(a)
    \/ DrainStart
    \/ DrainGet
    \/ DrainTimeout

SpecEmail == Init /\ [][NextEmail]_vars

\* InsightAgent alone on a bus: its task has been created, nothing else runs
InitHist ==
    /\ subscribers = << >>
    /\ queues = << >>
    /\ consumed = << >>
    /\ pub = [w \in Agents |-> IdleFrame]
    /\ published = [w \in Agents |-> 0]
    /\ running = [a \in Agents |-> FALSE]
    /\ pc = [a \in Agents |-> IF a = Insight THEN "created" ELSE "none"]
    /\ cancelReq = [a \in Agents |-> FALSE]
    /\ cycles = [a \in Agents |-> 0]
    /\ drain = "none"
    /\ drainCancelReq = FALSE
    /\ event_queue = 0
    /\ collected_insights = [c \in Categories |-> 0]
    /\ insight_history = << >>
    /\ orch = [running |-> FALSE, pc |-> "init", reported |-> {},
              stop_requested |-> {}, stats |-> get_stats(<< >>)]
    /\ email = NoEmails

\* the drain task takes an event within wait_for's 5 s: no put times out here
NextHist ==
    \/ InsightRunStart(MaxHistCycles, MaxHistCycles)
    \/ Wake(Insight, MaxHistCycles, MaxHistCycles)
    \/ PutNow(Insight)
    \/ PutBlock(Insight)
    \/ DrainStart
    \/ DrainGet
    \/ DrainTimeout

SpecHist == InitHist /\ [][NextHist]_vars

\* ------------------------------------------------------------- bus properties
\* everything queue q has ever held, in the order its reader sees it
History(q) == consumed[q] \o queues[q]

\* how many times e went into queue q
Count(q, e) == Cardinality({k \in 1..Len(History(q)) : History(q)[k] = e})

\* the queues registered under key t when the publish of frame f was called
RegisteredAtCall(f, t) ==
    {Registered(subscribers, t)[k] : k \in 1..Len(Registered(subscribers, t))}
        \cap (1..f.nq)

\* C1 as stated (fan-out delivery): when publish(E) has returned and every target
\* queue had a free slot when publish was called, E is in every queue that was
\* registered under E's type or under "*" at that time.
FanOutDeliveryRoomAtCall ==
    \A w \in BusPublishers :
        (pub[w].st = "returned" /\ pub[w].room) =>
            \A t \in {pub[w].event.event_type, Wildcard} :
                \A q \in RegisteredAtCall(pub[w], t) : Count(q, pub[w].event) >= 1

\* C1 as amended (fan-out delivery): when publish(E) has returned and none of its
\* puts found its queue full, E is in every queue that was registered under E's
\* type and in every queue that was registered under "*" when publish was called.
FanOutDelivery ==
    \A w \in BusPublishers :
        (pub[w].st = "returned" /\ ~pub[w].blocked) =>
            \A t \in {pub[w].event.event_type, Wildcard} :
                \A q \in RegisteredAtCall(pub[w], t) : Count(q, pub[w].event) >= 1

\* a publish of a concrete type returned without blocking, having had a subscriber
\* of its type and a wildcard subscriber
FanOutDeliveryWitness ==
    \E w \in BusPublishers :
        /\ pub[w].st = "returned"
        /\ ~pub[w].blocked
        /\ pub[w].event.event_type = "finance_insight"
        /\ RegisteredAtCall(pub[w], "finance_insight") # {}
        /\ RegisteredAtCall(pub[w], Wildcard) # {}

\* C2 (filtering): a queue registered under a concrete type U only ever holds
\* events of type U.
Filtering ==
    \A t \in DOMAIN subscribers :
        t # Wildcard =>
            \A k \in 1..Len(subscribers[t]) :
                \A n \in 1..Len(History(subscribers[t][k])) :
                    History(subscribers[t][k])[n].event_type = t

\* an event of type finance_insight was published and returned while a queue was
\* registered under email_summary, which stayed empty
FilteringWitness ==
    /\ "email_summary" \in DOMAIN subscribers
    /\ History(subscribers["email_summary"][1]) = <<>>
    /\ \E w \in BusPublishers :
        /\ pub[w].st = "returned"
        /\ pub[w].event.event_type = "finance_insight"
        /\ pub[w].nq >= subscribers["email_summary"][1]
        /\ pub[w].outcome # <<>>

\* C3 (exactly once per subscriber): no queue ever receives the event of one
\* publish call more than once.
AtMostOncePerSubscriber ==
    \A w \in BusPublishers :
        \A q \in 1..Len(queues) : Count(q, pub[w].event) <= 1

\* C4 (per-subscriber isolation): a put suspended on a full queue ends, the publish
\* goes on to its next target or returns; and a publish that dropped its event for
\* one subscriber has still attempted every other target and has enqueued the event
\* wherever the put found room.
Isolation ==
    /\ \A w \in BusPublishers :
        (pub[w].st = "active" /\ pub[w].waiting) ~> ~(pub[w].st = "active" /\ pub[w].waiting)
    /\ [][\A w \in BusPublishers :
            (pub[w].st = "active" /\ pub[w].waiting /\ pub'[w] # pub[w]) =>
                (pub'[w].st = "returned" \/ pub'[w].i > pub[w].i)]_vars
    /\ [](\A w \in BusPublishers :
            (pub[w].st = "returned" /\ \E a \in 1..Len(pub[w].outcome) : pub[w].outcome[a] = "timeout") =>
                /\ Len(pub[w].outcome) = Len(pub[w].targets)
                /\ \A b \in 1..Len(pub[w].targets) :
                    pub[w].outcome[b] = "ok" => Count(pub[w].targets[b], pub[w].event) >= 1)

\* a publish returned having dropped its event for its first target (full) and
\* delivered it to its second one
IsolationWitness ==
    \E w \in BusPublishers :
        /\ pub[w].st = "returned"
        /\ Len(pub[w].targets) = 2
        /\ pub[w].targets[1] # pub[w].targets[2]
        /\ pub[w].outcome = <<"timeout", "ok">>
        /\ Count(pub[w].targets[1], pub[w].event) = 0
        /\ Count(pub[w].targets[2], pub[w].event) = 1

\* C5 (FIFO per source): in the order a queue receives and yields its events, the
\* events of one source appear in the order that source published them.
FifoPerSource ==
    \A q \in 1..Len(queues) :
        \A m, n \in 1..Len(History(q)) :
            (m < n /\ History(q)[m].source_agent = History(q)[n].source_agent)
                => History(q)[m].data <= History(q)[n].data

\* a queue has yielded the first event of a source, then one of another source,
\* and holds the second event of the first source
FifoPerSourceWitness ==
    \E q \in 1..Len(queues) :
        /\ Len(consumed[q]) = 2
        /\ Len(queues[q]) = 1
        /\ consumed[q][1].source_agent = "FinanceAgent"
        /\ consumed[q][2].source_agent = "EmailAgent"
        /\ queues[q][1].source_agent = "FinanceAgent"
        /\ consumed[q][1].data = 1
        /\ queues[q][1].data = 2

\* C6 (publish never fails): whatever the puts do (room, full, timeout, raise),
\* no error leaves publish, and when it returns every target has been attempted.
PublishNeverFails ==
    \A w \in BusPublishers :
        /\ pub[w].st \in {"idle", "active", "returned"}
        /\ pub[w].st = "returned" => Len(pub[w].outcome) = Len(pub[w].targets)
        /\ pub[w].st = "active" => Len(pub[w].outcome) = pub[w].i - 1

\* a publish returned after one put raised and another one timed out
PublishNeverFailsWitness ==
    \E w \in BusPublishers :
        /\ pub[w].st = "returned"
        /\ \E a, b \in 1..Len(pub[w].outcome) :
            pub[w].outcome[a] = "error" /\ pub[w].outcome[b] = "timeout"

\* C7 (drop on timeout): once the put of an event into a queue has timed out, the
\* queue's content is unchanged by the timeout and that publish never enqueues the
\* event into that queue later.
DropOnTimeout ==
    [][\A w \in BusPublishers :
        /\ \A k \in 1..Len(pub[w].outcome) :
            (pub[w].outcome[k] = "timeout" /\ pub'[w].event = pub[w].event) =>
                Len(SelectSeq(consumed'[pub[w].targets[k]] \o queues'[pub[w].targets[k]],
                              LAMBDA e : e = pub[w].event))
                    = Count(pub[w].targets[k], pub[w].event)
        /\ (Len(pub'[w].outcome) = Len(pub[w].outcome) + 1
                /\ pub'[w].outcome[Len(pub'[w].outcome)] = "timeout") =>
                    queues' = queues]_vars

\* ------------------------------------------------------------- lifecycle properties
\* C8 (graceful shutdown): once stop_agents has completed, every agent task has
\* ended and the drain task of InsightAgent, if it was started, has ended too.
GracefulShutdown ==
    orch.pc = "stopped" =>
        /\ \A a \in Agents : Ended(pc[a])
        /\ drain = "none" \/ Ended(drain)

\* C9 (aggregator shutdown ordering): whenever InsightAgent.run has finished
\* after it started the drain task, the drain task has been cancelled and has
\* ended.
DrainRetiredBeforeRunEnds ==
    (Ended(pc[Insight]) /\ drain # "none") => Ended(drain)

\* ------------------------------------------------------------- history properties
\* C10 (history cap): insight_history never holds more than 100 entries, its
\* entries are in production order, the newest package is its last entry and no
\* retained entry is older than the 100 newest packages: the oldest are evicted.
HistoryCapped ==
    /\ Len(insight_history) <= HistoryCap
    /\ \A m \in 1..(Len(insight_history) - 1) :
        insight_history[m].cycle < insight_history[m + 1].cycle
    /\ published[Insight] > 0 =>
        /\ insight_history # <<>>
        /\ insight_history[Len(insight_history)].cycle = published[Insight]
    /\ \A m \in 1..Len(insight_history) :
        insight_history[m].cycle > published[Insight] - HistoryCap

\* process() has produced more than 100 packages: the cap was exceeded and the
\* first packages have been evicted
HistoryCappedWitness ==
    /\ published[Insight] > HistoryCap
    /\ Len(insight_history) = HistoryCap
    /\ insight_history[1].cycle = published[Insight] - HistoryCap + 1

\* C11 (history content): with n packages produced, insight_history holds the
\* packages n-99 .. n (all n of them while n <= 100) in production order; each
\* process() appends the new package as the last entry, leaves the retained
\* entries as they were and drops the oldest one alone once 100 are held.
HistoryContent ==
    /\ [](/\ Len(insight_history) =
                (IF published[Insight] > HistoryCap THEN HistoryCap ELSE published[Insight])
           /\ \A m \in 1..Len(insight_history) :
                insight_history[m].cycle = published[Insight] - Len(insight_history) + m)
    /\ [][published'[Insight] = published[Insight] + 1 =>
            /\ insight_history'[Len(insight_history')].detailed_insights = collected_insights
            /\ SubSeq(insight_history', 1, Len(insight_history') - 1) =
                 (IF Len(insight_history) < HistoryCap
                  THEN insight_history
                  ELSE Tail(insight_history))]_vars

\* 102 packages produced: the history runs from the third package to the last
HistoryContentWitness ==
    /\ published[Insight] = HistoryCap + 2
    /\ insight_history[1].cycle = 3
    /\ insight_history[HistoryCap].cycle = HistoryCap + 2

\* ------------------------------------------------------------- aggregation properties
\* the event type whose payload _consume_events stores under category c
CategoryType(c) ==
    CASE c = "activity" -> "activity_summary"
      [] c = "finance" -> "finance_insight"
      [] OTHER -> "email_summary"

\* the drain task has taken an event of category c's type from the queue
Drained(cons, c) == \E k \in 1..Len(cons) : cons[k].event_type = CategoryType(c)

\* C12 (freshness map): the data_freshness of the package a process() step of
\* InsightAgent produces is true for a category exactly when the drain task has
\* consumed an event of that category's type before the step.
FreshnessMap ==
    [][published'[Insight] = published[Insight] + 1 =>
        \A c \in Categories :
            insight_history'[Len(insight_history')].data_freshness[c]
                = Drained(consumed'[event_queue'], c)]_vars

\* the package produced after an activity_summary and a finance_insight, and no
\* email_summary, were drained says activity and finance fresh, email not
FreshnessMapWitness ==
    /\ insight_history # <<>>
    /\ insight_history[Len(insight_history)].data_freshness
         = [c \in Categories |-> c # "email"]
    /\ Drained(consumed[event_queue], "activity")
    /\ Drained(consumed[event_queue], "finance")
    /\ ~Drained(consumed[event_queue], "email")

\* ------------------------------------------------------------- worker properties
\* the task of agent a ended in run's `except Exception` around initialize()
InitFailed(a) == pc[a] = "done" /\ cycles[a] = 0

\* C13 (initialization failure): a worker whose initialize() raises ends its task
\* normally, has never called process() and never publishes; the step changes
\* neither the bus, nor the Orchestrator, nor any other worker.
InitFailureIsLocal ==
    /\ [](\A a \in Agents :
            InitFailed(a) => published[a] = 0 /\ pub[a] = IdleFrame)
    /\ [](InitFailed(Insight) => drain = "none" /\ event_queue = 0)
    /\ [][\A a \in Agents :
            (pc[a] = "created" /\ pc'[a] \notin {"created", "cancelled"} /\ cycles'[a] = 0) =>
                /\ pc'[a] = "done"
                /\ UNCHANGED <<busVars, orch, cancelReq>>
                /\ \A b \in Agents \ {a} :
                    pc'[b] = pc[b] /\ running'[b] = running[b] /\ pub'[b] = pub[b]]_vars

\* a worker failed in initialize(), the monitoring loop has logged its task as
\* done and goes on, and another worker is in its second process() call
InitFailureIsLocalWitness ==
    \E a, b \in Agents :
        /\ InitFailed(a)
        /\ a \in orch.reported
        /\ orch.pc = "monitor" /\ orch.running
        /\ running[b] /\ pc[b] = "cycle" /\ cycles[b] = 2

\* C14 (processing errors are transient): a process() call that raises leaves the
\* task alive in the 5 s recovery sleep and changes nothing else; when that sleep
\* ends the loop calls process() again if the running flag is true, and leaves
\* the loop normally if it is false.
ProcessingErrorsTransient ==
    [][\A a \in Agents :
        /\ (cycles'[a] = cycles[a] + 1 /\ published'[a] = published[a]) =>
                /\ pc'[a] = "recover"
                /\ UNCHANGED <<pub, published, orch>>
        /\ (pc[a] = "recover" /\ (pc'[a] # "recover" \/ cycles'[a] # cycles[a])) =>
                IF running[a]
                THEN cycles'[a] = cycles[a] + 1 /\ pc'[a] \in {"cycle", "recover"}
                ELSE cycles'[a] = cycles[a] /\ pc'[a] \in {"done", "join"}]_vars

\* a worker whose first process() raised is publishing from its second one
ProcessingErrorsTransientWitness ==
    \E a \in Agents :
        /\ cycles[a] = 2
        /\ published[a] = 1
        /\ Publishing(a)
        /\ running[a]

\* C15 (worker run ordering): initialize() has run, once, before the first
\* process() (InsightAgent's first publish already finds its one wildcard queue);
\* every later process() starts from the sleep that followed the previous call
\* (interval or recovery) with the running flag true at the test, and the loop is
\* left from such a sleep with the flag false.
RunOrdering ==
    /\ [](cycles[Insight] > 0 =>
            /\ event_queue \in 1..Len(queues)
            /\ Cardinality({k \in 1..Len(Registered(subscribers, Wildcard)) :
                    Registered(subscribers, Wildcard)[k] = event_queue}) = 1)
    /\ [][\A a \in Agents :
            /\ cycles'[a] = cycles[a] + 1 =>
                \/ pc[a] = "created" /\ cycles[a] = 0
                \/ (Sleeping(a) \/ pc[a] = "recover") /\ running[a]
            /\ (a = Insight /\ pc[a] = "created" /\ published'[a] = 1) =>
                pub'[a].nq = event_queue'
            /\ (pc[a] \in {"cycle", "recover"} /\ pc'[a] \in {"done", "join"}) =>
                (Sleeping(a) \/ pc[a] = "recover") /\ ~running[a]]_vars

\* InsightAgent sleeps after its second process(), subscribed once
RunOrderingWitness ==
    /\ cycles[Insight] = 2
    /\ published[Insight] = 2
    /\ Sleeping(Insight)
    /\ Registered(subscribers, Wildcard) = <<event_queue>>

\* C16 (stop is advisory): stop() changes the running flag of its agent and
\* nothing else; a publish in flight goes on with the same event and targets
\* whatever the flag says, and returns; the task leaves its loop only from the
\* sleep after process() or from the recovery sleep.
StopIsAdvisory ==
    /\ [][\A a \in Agents :
            /\ (running[a] /\ ~running'[a]) =>
                /\ UNCHANGED <<busVars, pubVars, pc, cancelReq, cycles, insightVars>>
                /\ orch'.pc = orch.pc /\ orch'.running = orch.running
                /\ \A b \in Agents \ {a} : running'[b] = running[b]
            /\ Publishing(a) =>
                /\ pc'[a] = "cycle"
                /\ pub'[a].st \in {"active", "returned"}
                /\ pub'[a].event = pub[a].event
                /\ pub'[a].targets = pub[a].targets
                /\ pub'[a].i >= pub[a].i
            /\ (pc[a] \in {"cycle", "recover"} /\ pc'[a] \notin {"cycle", "recover"}) =>
                Sleeping(a) \/ pc[a] = "recover"]_vars
    /\ \A a \in Agents :
        (Publishing(a) /\ ~running[a]) ~> (Sleeping(a) /\ ~running[a])

\* stop() was called on a worker whose publish waits on a full queue
StopIsAdvisoryWitness ==
    \E a \in Agents :
        /\ ~running[a]
        /\ Publishing(a)
        /\ pub[a].waiting

\* the event type the role of each worker stands for
RoleType ==
    [ActivityAgent |-> "activity_summary", FinanceAgent |-> "finance_insight",
     EmailAgent |-> "email_summary", InsightAgent |-> "daily_insight"]

\* C17 (one event per cycle): a process() call either raises and publishes
\* nothing, or calls publish once, with an event of its role's type whose source
\* is the worker's name; publish is called by process() alone, and the event of
\* a call stays the same until the next process().
OneEventPerCycle ==
    /\ [](\A a \in Agents :
            /\ published[a] <= cycles[a]
            /\ published[a] > 0 =>
                /\ pub[a].event.event_type = RoleType[a]
                /\ pub[a].event.source_agent = a
                /\ pub[a].event.data = published[a])
    /\ [][\A a \in Agents :
            /\ published'[a] \in {published[a], published[a] + 1}
            /\ cycles'[a] \in {cycles[a], cycles[a] + 1}
            /\ published'[a] = published[a] + 1 => cycles'[a] = cycles[a] + 1
            /\ cycles'[a] = cycles[a] + 1 =>
                \/ published'[a] = published[a] + 1 /\ pub'[a].st \in {"active", "returned"}
                \/ published'[a] = published[a] /\ pub'[a] = pub[a] /\ pc'[a] = "recover"
            /\ cycles'[a] = cycles[a] => pub'[a].event = pub[a].event]_vars

\* each of the four workers has completed one process() call, its publish done
OneEventPerCycleWitness ==
    \A a \in Agents :
        /\ cycles[a] = 1
        /\ published[a] = 1
        /\ pub[a].st = "returned"

\* ------------------------------------------------------------- supervisor properties
\* C18 (partial degradation): a step of the monitoring loop, whether or not it
\* finds tasks done, changes no worker and no task; while shutdown has not been
\* requested the loop stays in monitoring; an ended task is never started again;
\* and during monitoring no task is cancelled and every live worker keeps its
\* running flag.
PartialDegradation ==
    /\ [][(orch.pc = "monitor" /\ orch'.pc = "monitor" /\ orch' # orch) =>
            UNCHANGED <<busVars, pubVars, agentVars, insightVars>>]_vars
    /\ [][(orch.running /\ orch'.reported # orch.reported) =>
            orch'.pc = "monitor" /\ orch'.running]_vars
    /\ [][\A a \in Agents :
            Ended(pc[a]) => pc'[a] = pc[a] /\ cycles'[a] = cycles[a]]_vars
    /\ [](orch.pc = "monitor" =>
            \A a \in Agents :
                /\ ~cancelReq[a]
                /\ pc[a] \in {"cycle", "recover"} => running[a])

\* the monitoring loop has logged two ended tasks and is still monitoring, while
\* the two other workers are in their loops
PartialDegradationWitness ==
    /\ orch.pc = "monitor"
    /\ orch.running
    /\ Cardinality(orch.reported) = 2
    /\ \A b \in Agents \ orch.reported : running[b] /\ pc[b] = "cycle"

\* C19 (supervisor stop sequence): the step that enters stop_agents clears every
\* running flag and requests the cancellation of every task not yet ended, and no
\* task has moved when the wait begins; a cancellation is never pending while a
\* running flag is still set; stop_agents has returned only when each of the four
\* tasks has ended, finished or cancelled.
StopSequence ==
    /\ [][(orch.pc = "monitor" /\ orch'.pc # "monitor") =>
            /\ orch'.pc = "gather"
            /\ pc' = pc
            /\ \A a \in Agents : ~running'[a] /\ (cancelReq'[a] <=> ~Ended(pc[a]))]_vars
    /\ []((\E a \in Agents : cancelReq[a]) => \A b \in Agents : ~running[b])
    /\ [](orch.pc \in {"gather", "stopped"} => \A a \in Agents : ~running[a])
    /\ [](orch.pc = "stopped" => \A a \in Agents : Ended(pc[a]) /\ ~cancelReq[a])

\* stop_agents has returned: one task had finished by itself, another one was
\* cancelled inside its publish
StopSequenceWitness ==
    /\ orch.pc = "stopped"
    /\ \E a, b \in Agents :
        /\ pc[a] = "done"
        /\ pc[b] = "cancelled" /\ pub[b].st = "cancelled"

ShutdownForcesEveryTask ==
    orch.pc = "gather" => \A a \in Agents : Ended(pc[a]) \/ cancelReq[a]

\* C22 (running flag transitions): the flag of a worker goes from false to true
\* only in the first step of its task and from true to false only by a stop
\* request; once stop was requested on a worker, its flag is false.
StopNeverLost ==
    /\ [][\A a \in Agents :
            /\ (~running[a] /\ running'[a]) => pc[a] = "created"
            /\ (running[a] /\ ~running'[a]) =>
                a \in orch'.stop_requested \ orch.stop_requested]_vars
    /\ [](\A a \in orch.stop_requested : ~running[a])

\* C23 (cancellable suspension points): the delivery of a cancellation to an
\* agent's task, suspended in its sleep or in a put of publish, or to the drain
\* task, suspended in its get, ends that task.
CancellationEndsTask ==
    [][/\ \A a \in Agents : (cancelReq[a] /\ ~cancelReq'[a]) => Ended(pc'[a])
       /\ (drainCancelReq /\ ~drainCancelReq') => Ended(drain')]_vars

\* ------------------------------------------------------------- registry properties
\* the queues that appear in the registry subs
RegisteredQueues(subs) ==
    UNION {{subs[t][k] : k \in 1..Len(subs[t])} : t \in DOMAIN subs}

\* C24 (subscribe): subscribe can be called in every state; a call creates one
\* queue, empty and registered nowhere before, appends it at the end of the
\* sequence of exactly one key (a new key when the type was not registered) and
\* leaves every other registration, every existing queue's content and every
\* publish in flight as they were.
SubscribeAddsOne ==
    /\ [](Len(queues) < MaxSubs => \A t \in SubscribeTypes : ENABLED Subscribe(t))
    /\ [](RegisteredQueues(subscribers) = 1..Len(queues))
    /\ [][subscribers' # subscribers =>
            /\ Len(queues') = Len(queues) + 1
            /\ queues'[Len(queues')] = <<>> /\ consumed'[Len(queues')] = <<>>
            /\ \A q \in 1..Len(queues) : queues'[q] = queues[q] /\ consumed'[q] = consumed[q]
            /\ \E t \in SubscribeTypes :
                /\ DOMAIN subscribers' = DOMAIN subscribers \cup {t}
                /\ subscribers'[t] = Append(Registered(subscribers, t), Len(queues'))
                /\ \A u \in DOMAIN subscribers \ {t} : subscribers'[u] = subscribers[u]
            /\ UNCHANGED pubVars]_vars

\* a second queue was registered under a type whose first queue already held an
\* event, and a later publish of that type reached both
SubscribeAddsOneWitness ==
    /\ Registered(subscribers, "finance_insight") = <<1, 2>>
    /\ Len(History(1)) = 2
    /\ Len(History(2)) = 1
    /\ History(2)[1] = History(1)[2]

\* C25 (registry is read-only outside subscribe): a step of publish leaves the
\* registry as it is; a call of get_stats changes neither the registry, nor a
\* queue, nor a publish in flight, and its result names exactly the registered
\* keys, each with the number of queues registered under it.
RegistryReadOnly ==
    [][/\ pub' # pub => subscribers' = subscribers
       /\ orch' # orch =>
            /\ UNCHANGED <<busVars, pubVars>>
            /\ orch'.stats.event_types = DOMAIN subscribers
            /\ DOMAIN orch'.stats.subscriber_counts = DOMAIN subscribers
            /\ \A t \in DOMAIN subscribers :
                orch'.stats.subscriber_counts[t]
                    = Cardinality({q \in 1..Len(queues) :
                        \E k \in 1..Len(subscribers[t]) : subscribers[t][k] = q})]_vars

\* get_stats was called while a publish was suspended on a full queue, with two
\* keys registered, the wildcard among them
RegistryReadOnlyWitness ==
    /\ orch.stats.event_types = {"finance_insight", Wildcard}
    /\ orch.stats.subscriber_counts[Wildcard] = 1
    /\ \E w \in BusPublishers : pub[w].st = "active" /\ pub[w].waiting

\* ------------------------------------------------------------- summary properties

\* the number a sequence of decimal digits denotes
RECURSIVE Number(_)
Number(ds) ==
    IF ds = << >> THEN 0 ELSE 10 * Number(SubSeq(ds, 1, Len(ds) - 1)) + ds[Len(ds)]

\* the number of emails of priority p in a list
CountOf(emails, p) == Cardinality({k \in 1..Len(emails) : emails[k].priority = p})

\* the label of the sentence that reports priority p
LabelOf(p) == IF p = "high" THEN "urgent" ELSE p

\* C26 (fallback summary counts): the rule-based summary of any list of emails
\* with priorities among high, medium and low states the total number of emails
\* and, for each priority that at least one email has, exactly the number of
\* emails of that priority, once; a priority no email has is not mentioned; the
\* text is determined by the list alone.
FallbackSummaryCounts ==
    email.summary # << >> =>
        LET s == email.summary
            es == email.mock_emails
        IN /\ s[1].label = "unread" /\ Number(s[1].count) = Len(es)
           /\ \A p \in Priorities :
                LET at == {k \in 1..Len(s) : s[k].label = LabelOf(p)}
                IN IF CountOf(es, p) >= 1
                   THEN /\ Cardinality(at) = 1
                        /\ \A k \in at : Number(s[k].count) = CountOf(es, p)
                   ELSE at = {}
           /\ \A k \in 1..Len(s) : s[k].label \in {"unread", "urgent", "medium", "low"}

\* the summary of 2 high, 1 medium and 1 low priority emails says 4, 2, 1, 1
FallbackSummaryCountsWitness ==
    /\ Len(email.mock_emails) = 4
    /\ CountOf(email.mock_emails, "high") = 2
    /\ CountOf(email.mock_emails, "medium") = 1
    /\ Len(email.summary) = 4
    /\ [k \in 1..4 |-> Number(email.summary[k].count)] = <<4, 2, 1, 1>>

\* C27 (text generation never raises): every process() call of EmailAgent ends
\* in the publication of one email_summary event; when the language model is
\* not available or its call fails, the summary is the rule-based summary of
\* the agent's emails.
SummaryNeverRaises ==
    [][cycles'["EmailAgent"] # cycles["EmailAgent"] =>
        /\ pc'["EmailAgent"] = "cycle"
        /\ published'["EmailAgent"] = published["EmailAgent"] + 1
        /\ pub'["EmailAgent"].st \in {"active", "returned"}
        /\ pub'["EmailAgent"].event.event_type = "email_summary"
        /\ email'.llm = "none" <=> ~email'.llm_available
        /\ email'.llm \in {"none", "failed"} =>
            /\ email'.summary # LLMText
            /\ Number(email'.summary[1].count) = Len(email'.mock_emails)
            /\ email'.summary = create_rule_based_summary(email'.mock_emails)]_vars

\* the language model failed in the second cycle, and the email_summary event of
\* that cycle reached the aggregator
SummaryNeverRaisesWitness ==
    /\ email.llm = "failed"
    /\ cycles["EmailAgent"] = 2
    /\ email.summary = create_rule_based_summary(MockEmails)
    /\ collected_insights["email"] = 2

\* ------------------------------------------------------------- start-up properties

\* C28 (subscriptions precede publishing): the registry changes only in the
\* first step of an agent's task, and whenever the activity, finance or email
\* agent has published an event, the wildcard subscription of InsightAgent is
\* registered.
SubscriptionsPrecedePublishing ==
    /\ [][subscribers' # subscribers =>
            \E a \in Agents : pc[a] = "created" /\ pc'[a] # "created"]_vars
    /\ [](\A a \in Agents \ {Insight} :
            published[a] > 0 => Wildcard \in DOMAIN subscribers)

\* ------------------------------------------------------------- drain properties

\* the positions of the events of category c's type in what the drain task
\* has taken from the queue
DrainedAt(c) ==
    IF event_queue = 0 THEN {}
    ELSE {k \in 1..Len(consumed[event_queue]) :
            consumed[event_queue][k].event_type = CategoryType(c)}

\* C29 (last-writer-wins fold): collected_insights[c] is the payload of the
\* last event of category c's type the drain task has consumed, None when it
\* has consumed none; a step that changes one category consumes an event of
\* that category's type and leaves the other categories as they are.
LastWriterWins ==
    /\ [](\A c \in Categories :
            collected_insights[c] =
                IF DrainedAt(c) = {} THEN 0
                ELSE consumed[event_queue][CHOOSE k \in DrainedAt(c) :
                        \A j \in DrainedAt(c) : j <= k].data)
    /\ [][\A c \in Categories :
            collected_insights'[c] # collected_insights[c] =>
                /\ consumed'[event_queue] = Append(consumed[event_queue], Head(queues[event_queue]))
                /\ Head(queues[event_queue]).event_type = CategoryType(c)
                /\ \A d \in Categories \ {c} : collected_insights'[d] = collected_insights[d]]_vars

\* two email_summary events and one activity_summary were consumed: email holds
\* the second payload, activity its payload, finance is None
LastWriterWinsWitness ==
    /\ collected_insights = [activity |-> 1, finance |-> 0, email |-> 2]
    /\ Cardinality(DrainedAt("email")) = 2
    /\ Cardinality(DrainedAt("activity")) = 1

\* C30 (the dequeue timeout loses no data): a timeout of the drain task's
\* wait_for changes neither the queue nor collected_insights, and the task goes
\* on waiting unless the agent was stopped; the wildcard queue only grows at its
\* end and the drain task only takes its head, so that what was enqueued is
\* consumed in queue order, each event once; and while the loop runs, the k-th
\* event enqueued is eventually the k-th event consumed.
TimeoutLosesNothing ==
    /\ [][(drain = "waiting" /\ ~drainCancelReq /\ queues[event_queue] = <<>>
            /\ drain' # drain) =>
                /\ ~running[Insight]
                /\ drain' = "done"
                /\ UNCHANGED <<queues, consumed, collected_insights>>]_vars
    /\ [][event_queue # 0 =>
            /\ \E n \in 0..Len(History(event_queue)') :
                    SubSeq(History(event_queue)', 1, n) = History(event_queue)
                    /\ n = Len(History(event_queue))
            /\ \/ consumed'[event_queue] = consumed[event_queue]
               \/ /\ queues[event_queue] # <<>>
                  /\ consumed'[event_queue]
                        = Append(consumed[event_queue], Head(queues[event_queue]))
                  /\ queues'[event_queue] = Tail(queues[event_queue])]_vars
    /\ \A k \in 1..MaxCycles :
            (event_queue # 0 /\ Len(History(event_queue)) >= k)
                ~> (\/ event_queue # 0 /\ Len(consumed[event_queue]) >= k
                    \/ ~running[Insight]
                    \/ Ended(drain))

\* the drain task has consumed the events of two agents in the order of their
\* arrival and polls the empty queue again
TimeoutLosesNothingWitness ==
    /\ event_queue # 0
    /\ drain = "waiting"
    /\ running[Insight]
    /\ queues[event_queue] = <<>>
    /\ Len(consumed[event_queue]) = 3
    /\ consumed[event_queue][1].source_agent # consumed[event_queue][2].source_agent

\* ------------------------------------------------------------- queue properties

\* C31 (bounded, single-reader queues): no queue ever holds more than
\* MaxQueueSize events; a queue gains an event only at its end, by the put of a
\* publish that has this queue as its current target, and loses an event only at
\* its head, to the drain task of the agent that subscribed it.
BoundedSingleReader ==
    /\ [](\A q \in 1..Len(queues) : Len(queues[q]) <= MaxQueueSize)
    /\ [][\A q \in 1..Len(queues) :
            queues'[q] # queues[q] =>
                \/ \E a \in Agents :
                    /\ pub[a].st = "active"
                    /\ pub[a].targets[pub[a].i] = q
                    /\ queues'[q] = Append(queues[q], pub[a].event)
                    /\ pub'[a].outcome = Append(pub[a].outcome, "ok")
                \/ /\ q = event_queue
                   /\ drain = "waiting"
                   /\ queues[q] # <<>>
                   /\ queues'[q] = Tail(queues[q])
                   /\ consumed'[q] = Append(consumed[q], Head(queues[q]))]_vars

\* the wildcard queue is full after its reader has taken an event from it, and a
\* publisher is suspended in its put
BoundedSingleReaderWitness ==
    /\ event_queue # 0
    /\ Len(queues[event_queue]) = MaxQueueSize
    /\ Len(consumed[event_queue]) >= 1
    /\ \E a \in Agents : Publishing(a) /\ pub[a].waiting

\* C32 (wildcard subscription before draining): at most one queue is ever
\* registered under "*"; it is registered in the first step of InsightAgent's
\* task, which stores it and creates the drain task in the same step; whenever
\* a drain task exists the stored queue is that registered queue; and after a
\* failed initialize there is neither a drain task nor a stored queue.
SubscribedBeforeDraining ==
    /\ [](Len(Registered(subscribers, Wildcard)) <= 1)
    /\ [](drain # "none" =>
            /\ event_queue # 0
            /\ Registered(subscribers, Wildcard) = <<event_queue>>)
    /\ [](InitFailed(Insight) => drain = "none" /\ event_queue = 0)
    /\ [][(subscribers' # subscribers \/ (drain = "none" /\ drain' # "none")) =>
            /\ pc[Insight] = "created" /\ pc'[Insight] # "created"
            /\ drain = "none" /\ drain' = "created"
            /\ event_queue = 0
            /\ subscribers' = subscribers @@ (Wildcard :> <<event_queue'>>)
            /\ event_queue' = Len(queues')
            /\ queues' = Append(queues, << >>)]_vars

\* the drain task waits on the one queue registered under "*" and has taken an
\* event from it
SubscribedBeforeDrainingWitness ==
    /\ drain = "waiting"
    /\ Registered(subscribers, Wildcard) = <<event_queue>>
    /\ Len(consumed[event_queue]) >= 1

\* ------------------------------------------------------------- stop properties

\* C33 (the drain loop exits on stop): with the running flag of InsightAgent
\* false, the next step of the drain task, be it a timeout, a consumed event or
\* its very first step, ends the task, also with events left in the queue; and
\* the task does end.
DrainExitsOnStop ==
    /\ [][(~running[Insight] /\ drain \in {"created", "waiting"}
            /\ (drain' # drain \/ consumed' # consumed)) =>
                Ended(drain')]_vars
    /\ (~running[Insight] /\ drain \in {"created", "waiting"}) ~> Ended(drain)

\* the drain task has ended by itself after stop() with an event left in the
\* wildcard queue
DrainExitsOnStopWitness ==
    /\ ~running[Insight]
    /\ drain = "done"
    /\ queues[event_queue] # <<>>
    /\ Len(consumed[event_queue]) >= 1

\* C34 (a stopped worker ends without cancellation): once stop() was called on
\* a started worker, no process() call of it begins any more, its task moves
\* only forward, from the publish in flight to the sleep and from the sleep (or
\* the recovery delay) out of the loop, and its run() returns.
StoppedWorkerEnds ==
    /\ [][\A a \in Agents :
            (~running[a] /\ pc[a] \in {"cycle", "recover", "join"}) =>
                /\ cycles'[a] = cycles[a]
                /\ published'[a] = published[a]
                /\ ~cancelReq'[a]
                /\ pc'[a] # pc[a] =>
                    \/ pc[a] # "join" /\ ~Publishing(a)
                        /\ pc'[a] = (IF a = Insight THEN "join" ELSE "done")
                    \/ pc[a] = "join" /\ pc'[a] = "done"]_vars
    /\ \A a \in HaltAgents :
        (~running[a] /\ pc[a] \in {"cycle", "recover", "join"}) ~> (pc[a] = "done")

\* a worker stopped in the middle of a publish has left its loop and ended,
\* with its process() count unchanged
StoppedWorkerEndsWitness ==
    \E a \in Agents \ {Insight} :
        /\ pc[a] = "done"
        /\ ~running[a]
        /\ cycles[a] = 2
        /\ pub[a].st = "returned"
        /\ pub[a].blocked

\* ------------------------------------------------------------- concurrency properties

\* C35 (subscribing during a publish in flight): while a publish is in flight
\* its event and its list of targets stay as computed at its start, whatever is
\* subscribed meanwhile; the list is worked through position by position, one
\* outcome per target, none left out when publish returns; and a queue
\* registered after the call never holds the event of that call.
SubscribeDuringPublish ==
    /\ [][\A w \in BusPublishers :
            (pub[w].st = "active" /\ published'[w] = published[w]) =>
                /\ pub'[w].event = pub[w].event
                /\ pub'[w].targets = pub[w].targets
                /\ pub'[w].nq = pub[w].nq
                /\ pub'[w].i \in {pub[w].i, pub[w].i + 1}
                /\ subscribers' # subscribers => pub'[w] = pub[w]]_vars
    /\ [](\A w \in BusPublishers :
            /\ pub[w].st \in {"active", "returned"} =>
                /\ Len(pub[w].outcome) = pub[w].i - 1
                /\ \A q \in (pub[w].nq + 1)..Len(queues) : Count(q, pub[w].event) = 0
            /\ pub[w].st = "returned" => Len(pub[w].outcome) = Len(pub[w].targets))

\* a queue was subscribed under the type of an event whose publish was
\* suspended on a full queue; the publish has delivered the event to the old
\* queue and returned, the new queue is empty
SubscribeDuringPublishWitness ==
    \E w \in BusPublishers :
        /\ pub[w].st = "returned"
        /\ pub[w].blocked
        /\ pub[w].nq = 1
        /\ pub[w].outcome = <<"ok">>
        /\ Registered(subscribers, pub[w].event.event_type) = <<1, 2>>
        /\ History(2) = << >>
        /\ Count(1, pub[w].event) = 1

\* ------------------------------------------------------------- snapshot properties

\* C36 (history snapshots are stable): the package a process() call of
\* InsightAgent appends to the history holds collected_insights and its
\* freshness as they are at that call, and is the payload of the daily_insight
\* published by the call; afterwards no step changes a package that stays in
\* the history, nor an event that was handed to the wildcard queue.
SnapshotsStable ==
    /\ [][published'[Insight] = published[Insight] + 1 =>
            LET entry == insight_history'[Len(insight_history')]
            IN /\ entry.detailed_insights = collected_insights
               /\ \A c \in Categories :
                    entry.data_freshness[c] = (collected_insights[c] # 0)
               /\ pub'[Insight].event.data = entry.cycle
               /\ pub'[Insight].event.event_type = "daily_insight"]_vars
    /\ [][\A k \in 1..Len(insight_history) : \A j \in 1..Len(insight_history') :
            insight_history'[j].cycle = insight_history[k].cycle =>
                insight_history'[j] = insight_history[k]]_vars
    /\ [][event_queue # 0 =>
            \A k \in 1..Len(History(event_queue)) :
                (consumed'[event_queue] \o queues'[event_queue])[k]
                    = History(event_queue)[k]]_vars

\* the first package says email 1; the drain task has since overwritten email
\* with a later payload, and the package is still in the history as it was
SnapshotsStableWitness ==
    /\ Len(insight_history) >= 1
    /\ insight_history[1].detailed_insights["email"] = 1
    /\ insight_history[1].data_freshness["email"]
    /\ collected_insights["email"] = 2

====
